---- MODULE Spec2Model ----
(***************************************************************************)
(* Root daemon lifecycle (pkg/client/cli/connect/daemon.go) and kubeconfig *)
(* resolution (pkg/client/k8s_config.go) of telepresence.                  *)
(*                                                                         *)
(* Independent CLI invocations call ensureRootDaemonRunning and Disconnect *)
(* against one machine-wide root daemon socket.  Every blocking call of a  *)
(* function body is one step of the invocation, so that the invocations    *)
(* interleave at exactly the places where the Go code can be preempted by  *)
(* another process.                                                        *)
(***************************************************************************)
EXTENDS Integers, Sequences, FiniteSets, TLC

\* The two concurrent CLI invocations (terminal sessions).
Procs == {"cli1", "cli2"}

\* Number of calls (ensureRootDaemonRunning or Disconnect) explored in one run.
MaxCalls == 3

\* 10*time.Second handed to socket.WaitUntilRunning, in poll periods of 1s.
ReadyTimeout == 10

\* 5*time.Second handed to socket.WaitUntilVanishes, in poll periods of 1s.
VanishTimeout == 5

\* Number of remote extensions merged into one Kubeconfig in one run.
MaxMerges == 3

\* Number of calls of CommitFlags and WithDefaultRequest in one run.
MaxCaptures == 3

VARIABLES
    cli,         \* per invocation: position in the function and its locals
    socket,      \* state of socket.RootDaemonPath: "absent" or "running"
    pending,     \* daemon processes spawned that have not yet bound or died
    quitPending, \* the running root daemon has been told to quit
    calls,       \* calls started so far
    kin,         \* what a kubeconfig resolution reads: flags, files, environment
    kout,        \* the result of the kubeconfig resolution
    kf,          \* the KubeconfigExtension of a resolved Kubeconfig
    remote,      \* the payload of the last AddRemoteKubeConfigExtension
    merges,      \* calls of AddRemoteKubeConfigExtension so far
    flags,       \* the flags of the cobra command: flag name -> pflag.Flag
    cmdName,     \* cmd.Name()
    request,     \* the daemon.Request that the last call worked on
    osEnv,       \* the environment of the process: name -> os.LookupEnv result
    captures     \* calls of CommitFlags and WithDefaultRequest so far

vars == <<cli, socket, pending, quitPending, calls, kin, kout, kf, remote, merges,
          flags, cmdName, request, osEnv, captures>>

requestVars == <<flags, cmdName, request, captures>>

kubeVars == <<kin, kout>>

mergeVars == <<kf, remote, merges>>

daemonVars == <<cli, socket, pending, quitPending, calls>>

----------------------------------------------------------------------------
(* Errors.  An error value is the message of its outermost fmt.Errorf wrap *)
(* together with the cause it wraps; nil has cause "nil".                  *)

Err(wrap, cause) == [wrap |-> wrap, cause |-> cause]

NilErr == Err("", "nil")

ErrNoUserDaemon == "ErrNoUserDaemon"

\* fmt.Errorf(msg+": %w", err)
Wrap(msg, err) == Err(msg, err.cause)

----------------------------------------------------------------------------
(* Collaborators of the socket, proc and connector packages.               *)

\* socket.IsRunning: <<running, err>> for a socket state; the dial can also
\* fail for a reason other than the socket being absent.
IsRunning(sock) ==
    IF sock = "running"
    THEN {<<TRUE, NilErr>>, <<FALSE, Err("", "io")>>}
    ELSE {<<FALSE, NilErr>>, <<FALSE, Err("", "io")>>}

\* One poll of socket.WaitUntilRunning(ctx, name, path, ttw): "pending" means
\* that the poll sleeps and goes around again.
WaitUntilRunning(cancelled, sock, elapsed, ttw) ==
    IF cancelled THEN "cancelled"
    ELSE IF sock = "running" THEN "nil"
    ELSE IF elapsed >= ttw THEN "timeout"
    ELSE "pending"

\* One poll of socket.WaitUntilVanishes(name, path, ttw).  The function takes
\* no context.
WaitUntilVanishes(sock, elapsed, ttw) ==
    IF sock = "absent" THEN "nil"
    ELSE IF elapsed >= ttw THEN "timeout"
    ELSE "pending"

\* socket.Dial: possible errors for a socket state.
Dial(sock) ==
    IF sock = "running" THEN {"nil", "io"} ELSE {"notexist"}

\* UserDaemonDisconnect: possible errors.
UserDaemonDisconnect == {"nil", ErrNoUserDaemon, "rpc"}

\* launchDaemon's outcomes: the log file cannot be prepared (no spawn is
\* attempted), proc.StartInBackgroundAsRoot fails, or the process is started.
LaunchOutcomes == {"logfile", "spawn", "nil"}

----------------------------------------------------------------------------
(* Decisions of ensureRootDaemonRunning and Disconnect.                    *)

\* The three early "return nil" of ensureRootDaemonRunning.
\* ud is daemon.GetUserClient(ctx): "nil", "local" or "remote";
\* cr is daemon.GetRequest(ctx): "nil", "plain" or "docker";
\* addr is client.GetEnv(ctx).UserDaemonAddress.
NeverStartGuardNoDocker(ud, cr, addr) ==
    \/ ud = "remote"
    \/ addr # ""

NeverStart(ud, cr, addr) ==
    \/ (ud # "nil" /\ ud = "remote")
    \/ (cr # "nil" /\ cr = "docker")
    \/ addr # ""

\* if err != nil || running { return err }
ProbeReturnsOnErrOnly(running, err) == err # NilErr

ProbeReturns(running, err) == err # NilErr \/ running

\* if err = launchDaemon(ctx, cr); err != nil { return fmt.Errorf(...) }
LaunchResult(err) ==
    IF err # NilErr THEN Wrap("failed to launch the daemon service", err)
    ELSE NilErr

\* if err = socket.WaitUntilRunning(...); err != nil { return fmt.Errorf(...) }
\* return nil
WaitResultIgnoresErr(err) == NilErr

WaitResultAlwaysErr(err) == Wrap("daemon service did not start", err)

WaitResult(err) ==
    IF err # NilErr THEN Wrap("daemon service did not start", err)
    ELSE NilErr

\* err := UserDaemonDisconnect(...); if errors.Is(err, ErrNoUserDaemon) { err = nil }
\* if err != nil { return fmt.Errorf("error when quitting connector: %w", err) }
UserStepResultKeepsNoDaemon(err) ==
    IF err # NilErr THEN Wrap("error when quitting connector", err)
    ELSE NilErr

UserStepResult(err) ==
    IF err.cause = ErrNoUserDaemon THEN NilErr
    ELSE IF err # NilErr THEN Wrap("error when quitting connector", err)
    ELSE NilErr

\* if err = socket.WaitUntilVanishes(...); err != nil { conn, err = socket.Dial(...)
FallbackAlways(waitErr) == TRUE

Fallback(waitErr) == waitErr # NilErr

\* if _, err = Quit(...); err != nil { err = fmt.Errorf(...) } ... return err
QuitResultDropsErr(err) == NilErr

QuitResult(err) ==
    IF err # NilErr THEN Wrap("error when quitting root daemon", err)
    ELSE NilErr

----------------------------------------------------------------------------
(* Connection request (cli/daemon/request.go)                              *)

\* The flags of cr.kubeFlagSet (of genericclioptions.ConfigFlags) that are
\* followed here, and the global flags that setGlobalConnectFlags looks up.
KubeFlagNames == {"namespace", "request-timeout", "as-group"}

GlobalFlagNames == {"context", "docker", "use"}

FlagNames == KubeFlagNames \cup GlobalFlagNames

\* A pflag.Flag; Exists is FALSE when cmd.Flag(name) returns nil.
Flag(exists, changed, value) == [Exists |-> exists, Changed |-> changed, Value |-> value]

SliceFlagNames == {"as-group"}

\* slice.AsCSV: the entries separated by commas.
RECURSIVE AsCSV(_)
AsCSV(vs) ==
    IF vs = <<>> THEN ""
    ELSE IF Len(vs) = 1 THEN vs[1]
    ELSE vs[1] \o "," \o AsCSV(Tail(vs))

\* A pflag.Value: what String() returns and, for a pflag.SliceValue, what
\* GetSlice() returns.
Val(str) == [String |-> str, Slice |-> <<>>]

SliceVal(vs) == [String |-> "[" \o AsCSV(vs) \o "]", Slice |-> vs]

\* The values that the flags have before the command line is parsed.
FlagDefaults ==
    [f \in FlagNames |->
        CASE f = "namespace" -> {Val(""), Val("default")}
          [] f = "request-timeout" -> {Val("0")}
          [] f = "as-group" -> {SliceVal(<<>>)}
          [] f = "context" -> {Val(""), Val("minikube")}
          [] f = "docker" -> {Val("false")}
          [] f = "use" -> {Val("")}]

\* The values that the command line gives them.
FlagArguments ==
    [f \in FlagNames |->
        CASE f = "namespace" -> {Val("ns1")}
          [] f = "request-timeout" -> {Val("0"), Val("30s")}
          [] f = "as-group" -> {SliceVal(<<"g1", "g2">>)}
          [] f = "context" -> {Val("c1")}
          [] f = "docker" -> {Val("true")}
          [] f = "use" -> {Val("^a.*"), Val("(")}]

NoFlags == [f \in FlagNames |-> Flag(TRUE, FALSE, CHOOSE v \in FlagDefaults[f] : TRUE)]

\* flag.Value.String(), or slice.AsCSV(sv.GetSlice()) for a pflag.SliceValue
FlagString(name, flag) ==
    IF name \in SliceFlagNames THEN AsCSV(flag.Value.Slice) ELSE flag.Value.String

\* strconv.ParseBool; its error is dropped and leaves false
ParseBool(v) == v \in {"1", "t", "T", "TRUE", "true", "True"}

\* regexp.Compile fails on these patterns.
BadPatterns == {"("}

\* The environment variables that addKubeconfigEnv captures.
EnvNames == {"KUBECONFIG", "GOOGLE_APPLICATION_CREDENTIALS"}

\* os.LookupEnv(key): the value and whether the variable is set.
Lookup(ok, v) == [ok |-> ok, v |-> v]

NoEnv == [k \in EnvNames |-> Lookup(FALSE, "")]

EnvValues ==
    [k \in EnvNames |->
        IF k = "KUBECONFIG"
        THEN {Lookup(FALSE, ""), Lookup(TRUE, ""), Lookup(TRUE, "/a:/b")}
        ELSE {Lookup(FALSE, ""), Lookup(TRUE, "/gac.json")}]

\* A dash prefix in the key means "unset".
UnsetKey(key) == "-" \o key

\* m[k] = v on a map[string]string
MapSet(m, k, v) == [x \in DOMAIN m \cup {k} |-> IF x = k THEN v ELSE m[x]]

\* make(map[string]string, n), and the nil map: no keys
EmptyMap == <<>>

\* A nil *string, *regexp.Regexp
NilPtr == "<nil>"

\* if flag.Changed / if f != nil && f.Changed
PropagatedAlways(flag) == flag.Exists

Propagated(flag) == flag.Exists /\ flag.Changed

\* cr.Environment = make(map[string]string, 2)
KeepEnvironment(old) == old

NewEnvironment(old) == EmptyMap

\* addEnv(key) of addKubeconfigEnv
AddEnv(m, key, env) ==
    IF env[key].ok THEN MapSet(m, key, env[key].v)
    ELSE MapSet(m, UnsetKey(key), "")

\* cr.addKubeconfigEnv()
AddKubeconfigEnv(r, env) ==
    [r EXCEPT !.Environment =
        AddEnv(AddEnv(NewEnvironment(r.Environment), "KUBECONFIG", env),
               "GOOGLE_APPLICATION_CREDENTIALS", env)]

\* cr.setGlobalConnectFlags(cmd); err is the error it returns
SetGlobalConnectFlags(r, fl) ==
    LET r1 == IF Propagated(fl["context"])
              THEN [r EXCEPT !.KubeFlags = MapSet(@, "context", fl["context"].Value.String),
                             !.Context = fl["context"].Value.String]
              ELSE r
        r2 == IF Propagated(fl["docker"])
              THEN [r1 EXCEPT !.Docker = ParseBool(fl["docker"].Value.String)]
              ELSE r1
    IN  IF Propagated(fl["use"])
        THEN IF fl["use"].Value.String \in BadPatterns
             THEN [r2 EXCEPT !.Use = NilPtr, !.err = "regexp"]
             ELSE [r2 EXCEPT !.Use = fl["use"].Value.String, !.err = "nil"]
        ELSE [r2 EXCEPT !.err = "nil"]

\* The cr.kubeFlagSet.VisitAll of CommitFlags, flag by flag.
RECURSIVE VisitAll(_, _, _)
VisitAll(r, fl, names) ==
    IF names = {} THEN r
    ELSE LET f == CHOOSE n \in names : TRUE
             r1 == IF Propagated(fl[f])
                   THEN [r EXCEPT !.KubeFlags = MapSet(@, f, FlagString(f, fl[f]))]
                   ELSE r
         IN  VisitAll(r1, fl, names \ {f})

\* The Request of InitRequest(cmd): stored says that the request has been put
\* into a context.
InitRequest ==
    [op |-> "InitRequest", Implicit |-> FALSE, KubeFlags |-> EmptyMap,
     Environment |-> EmptyMap, Docker |-> FALSE, Use |-> NilPtr,
     Context |-> "", Namespace |-> "", err |-> "nil", stored |-> FALSE]

\* cr.CommitFlags(cmd)
CommitFlagsResult(r, fl, env) ==
    LET r1 == VisitAll(r, fl, KubeFlagNames)
        r2 == AddKubeconfigEnv(r1, env)
        r3 == SetGlobalConnectFlags(r2, fl)
    IN  [r3 EXCEPT !.op = "CommitFlags", !.stored = (r3.err = "nil")]

\* WithDefaultRequest(ctx, cmd)
WithDefaultRequestResult(name, fl, env) ==
    LET r0 == [InitRequest EXCEPT !.op = "WithDefaultRequest", !.Implicit = TRUE,
                                  !.Context = NilPtr]
        r1 == IF name # "list" /\ Propagated(fl["namespace"])
              THEN [r0 EXCEPT !.Namespace = fl["namespace"].Value.String,
                              !.KubeFlags = MapSet(@, "namespace", fl["namespace"].Value.String)]
              ELSE r0
        r2 == SetGlobalConnectFlags(r1, fl)
    IN  IF r2.err # "nil" THEN r2
        ELSE [AddKubeconfigEnv(r2, env) EXCEPT !.stored = TRUE]

----------------------------------------------------------------------------
(* Kubeconfig resolution (k8s_config.go)                                   *)

CtxNames == {"c1", "c2"}

ClusterNames == {"k1", "k2"}

\* The telepresence.io extension of a cluster entry: not there, not JSON, or
\* a JSON object whose "manager" member is missing ("nil") or has a namespace.
NoExt == [kind |-> "none", manager |-> "nil", ns |-> ""]

Malformed == [kind |-> "malformed", manager |-> "nil", ns |-> ""]

Json(manager, ns) == [kind |-> "json", manager |-> manager, ns |-> ns]

ExtValues == {NoExt, Malformed, Json("nil", ""), Json("set", ""), Json("set", "z")}

\* Partial functions from a set of names.
PartialFns(D, R) == UNION {[d -> R] : d \in SUBSET D}

\* api.Config as far as it is read: Contexts (name -> cluster name), Clusters
\* (name -> extension) and CurrentContext.
RawConfigs ==
    [Contexts : PartialFns(CtxNames, ClusterNames),
     Clusters : PartialFns(ClusterNames, ExtValues),
     CurrentContext : {""} \cup CtxNames]

\* The environment of the CLI that made a request, and that of the daemon that
\* receives it.
RequestEnv ==
    [k \in EnvNames |-> IF k = "KUBECONFIG" THEN Lookup(TRUE, "/a:/b")
                        ELSE Lookup(TRUE, "/gac.json")]

DaemonEnv ==
    [k \in EnvNames |-> IF k = "KUBECONFIG" THEN Lookup(TRUE, "/old")
                        ELSE Lookup(FALSE, "")]

\* Everything a resolution depends on.  loadErr names the call into client-go
\* that fails, if any; flagContext is flagMap["context"]; override is the
\* managerNamespaceOverride (cr.ManagerNamespace for the daemon); env is
\* GetEnv(c).ManagerNamespace; default is
\* GetConfig(c).Cluster().DefaultManagerNamespace.
KubeInputs ==
    [config : RawConfigs,
     loadErr : {"nil", "flags", "raw", "namespace", "client"},
     flagContext : {"", "c1", "c2"},
     override : {"", "x"},
     env : {"", "y"},
     default : {"ambassador"},
     IsPodDaemon : BOOLEAN,
     Environment : {AddKubeconfigEnv(InitRequest, e).Environment : e \in {NoEnv, RequestEnv}}]

NoInput ==
    [config |-> [Contexts |-> <<>>, Clusters |-> <<>>, CurrentContext |-> ""],
     loadErr |-> "nil", flagContext |-> "", override |-> "", env |-> "",
     default |-> "ambassador", IsPodDaemon |-> FALSE, Environment |-> EmptyMap]

KErr(cat, msg) == [fn |-> "", err |-> msg, cat |-> cat,
                   Context |-> "", cluster |-> "", managerNs |-> ""]

KOk(ctxName, cluster, ns) == [fn |-> "", err |-> "nil", cat |-> "",
                              Context |-> ctxName, cluster |-> cluster, managerNs |-> ns]

NoResult == [KErr("", "none") EXCEPT !.fn = "none"]

\* json.Unmarshal(ext.Raw, &k.KubeconfigExtension) followed by
\* if k.KubeconfigExtension.Manager == nil { Manager = &ManagerConfig{} }
ExtensionNamespace(ext) ==
    IF ext.kind = "json" /\ ext.manager = "set" THEN ext.ns ELSE ""

\* The three assignments to k.KubeconfigExtension.Manager.Namespace at the
\* end of newKubeconfig.
ManagerNamespace(extNs, override, env, default) ==
    LET n1 == IF override # "" THEN override ELSE extNs
        n2 == IF n1 = "" THEN env ELSE n1
    IN  IF n2 = "" THEN default ELSE n2

newKubeconfig(in) ==
    LET config == in.config
        ctxName == IF in.flagContext = "" THEN config.CurrentContext ELSE in.flagContext
    IN  IF in.loadErr = "raw" THEN KErr("", "RawConfig")
        ELSE IF DOMAIN config.Contexts = {}
        THEN KErr("Config", "kubeconfig has no context definition")
        ELSE IF in.loadErr = "namespace" THEN KErr("", "Namespace")
        ELSE IF ctxName \notin DOMAIN config.Contexts
        THEN KErr("Config", "context does not exist in the kubeconfig")
        ELSE LET cluster == config.Contexts[ctxName]
             IN  IF cluster \notin DOMAIN config.Clusters
                 THEN KErr("Config", "the cluster declared in context does exists in the kubeconfig")
                 ELSE IF in.loadErr = "client" THEN KErr("", "ClientConfig")
                 ELSE LET ext == config.Clusters[cluster]
                      IN  IF ext.kind = "malformed"
                          THEN KErr("Config", "unable to parse extension")
                          ELSE KOk(ctxName, cluster,
                                   ManagerNamespace(ExtensionNamespace(ext),
                                                    in.override, in.env, in.default))

\* NewInClusterConfig: no kubeconfig file is read.
NewInClusterConfig(in) ==
    IF in.loadErr = "flags" THEN KErr("User", "error processing kubectl flag")
    ELSE IF in.loadErr = "client" THEN KErr("", "ClientConfig")
    ELSE IF in.loadErr = "namespace" THEN KErr("", "Namespace")
    ELSE KOk("", "", IF in.env = "" THEN in.default ELSE in.env)

\* The loop over cr.Environment in DaemonKubeconfig: the environments that it
\* can leave behind.  Go ranges over a map in no fixed order, so a map with
\* both K and -K may leave K set or unset.
ReplayEnvironment(m, env) ==
    {e \in [EnvNames -> {Lookup(FALSE, "")} \cup {env[k] : k \in EnvNames}
                          \cup {Lookup(TRUE, m[k]) : k \in DOMAIN m \cap EnvNames}] :
        \A k \in EnvNames :
            \/ UnsetKey(k) \in DOMAIN m /\ e[k] = Lookup(FALSE, "")
            \/ k \in DOMAIN m /\ e[k] = Lookup(TRUE, m[k])
            \/ k \notin DOMAIN m /\ UnsetKey(k) \notin DOMAIN m /\ e[k] = env[k]}

\* ConfigFlags(flagMap) and then newKubeconfig.
ResolveWithFlags(in) ==
    IF in.loadErr = "flags" THEN KErr("User", "error processing kubectl flag")
    ELSE newKubeconfig(in)

\* The *api.Context that CurrentContext returns is config.Contexts[cc]: the
\* map's zero value, a nil pointer, when cc is not a key.
NilContext == "<nil>"

\* CurrentContext(flagMap): the result's Context is cc and its cluster is the
\* Cluster of the returned *api.Context, NilContext for a nil pointer.
CurrentContext(in) ==
    LET config == in.config
        cc == IF in.flagContext = "" THEN config.CurrentContext ELSE in.flagContext
    IN  IF in.loadErr = "flags" THEN KErr("User", "error processing kubectl flag")
        ELSE IF in.loadErr = "namespace" THEN KErr("", "Namespace")
        ELSE IF in.loadErr = "raw" THEN KErr("", "RawConfig")
        ELSE IF DOMAIN config.Contexts = {}
        THEN KErr("Config", "kubeconfig has no context definition")
        ELSE KOk(cc, IF cc \in DOMAIN config.Contexts THEN config.Contexts[cc]
                     ELSE NilContext, "")

----------------------------------------------------------------------------
(* Remote extension merge (Kubeconfig.AddRemoteKubeConfigExtension)        *)

\* An IP address is its sequence of bytes; the empty sequence is the nil
\* net.IP and the empty IPKey.
NoIP == <<>>

\* iputil.IPKey(ip): the conversion of the address bytes to a string keeps
\* the bytes.
IPKey(ip) == [i \in 1..Len(ip) |-> ip[i]]

\* DnsConfig, and the DNS section of the remote payload.
DnsRecord(localIP, remoteIP, lists, timeout) ==
    [LocalIP |-> localIP, RemoteIP |-> remoteIP,
     ExcludeSuffixes |-> lists.ExcludeSuffixes,
     IncludeSuffixes |-> lists.IncludeSuffixes,
     Excludes |-> lists.Excludes,
     Mappings |-> lists.Mappings,
     LookupTimeout |-> timeout]

DnsLists(es, is, ex, mp) ==
    [ExcludeSuffixes |-> es, IncludeSuffixes |-> is, Excludes |-> ex, Mappings |-> mp]

NoLists == DnsLists(<<>>, <<>>, <<>>, <<>>)

Mapping(name, aliasFor) == [Name |-> name, AliasFor |-> aliasFor]

\* &DnsConfig{}
ZeroDns == DnsRecord(NoIP, NoIP, NoLists, 0)

\* The fields of Kubeconfig.KubeconfigExtension that the merge writes; DNSNil
\* says that the DNS pointer is nil.
Extension(dnsNil, dns, alsoProxy, neverProxy) ==
    [DNSNil |-> dnsNil, DNS |-> dns, AlsoProxy |-> alsoProxy, NeverProxy |-> neverProxy]

NoExtension == Extension(TRUE, ZeroDns, <<>>, <<>>)

\* The parsed cfgYaml: parse is "error" when yaml.Unmarshal fails; DNSNil and
\* RoutingNil say that the section is not in the document.
Remote(parse, dnsNil, dns, routingNil, alsoProxy, neverProxy) ==
    [parse |-> parse, DNSNil |-> dnsNil, DNS |-> dns,
     RoutingNil |-> routingNil, AlsoProxy |-> alsoProxy, NeverProxy |-> neverProxy]

NoRemote == Remote("none", TRUE, ZeroDns, TRUE, <<>>, <<>>)

\* Local settings, from the kubeconfig extension of the cluster.
LocalLists ==
    {NoLists,
     DnsLists(<<".local">>, <<".svc">>, <<"a.com">>, <<Mapping("m1", "a1")>>)}

LocalScalars ==
    {<<NoIP, NoIP, 0>>,
     <<NoIP, <<10, 96, 0, 10>>, 0>>,
     <<<<127, 0, 0, 1>>, <<10, 96, 0, 10>>, 5>>}

LocalRoutes == {<<<<>>, <<>>>>, <<<<"10.0.0.0/8">>, <<"192.168.0.0/16">>>>}

LocalExtensions ==
    {Extension(TRUE, ZeroDns, r[1], r[2]) : r \in LocalRoutes}
    \cup {Extension(FALSE, DnsRecord(sc[1], sc[2], l, sc[3]), r[1], r[2]) :
            sc \in LocalScalars, l \in LocalLists, r \in LocalRoutes}

\* Remote settings, from the traffic manager.  Some entries repeat a local
\* entry.
RemoteLists ==
    {NoLists,
     DnsLists(<<".cluster">>, <<".svc">>, <<"a.com", "b.com">>, <<Mapping("m1", "a1")>>),
     DnsLists(<<>>, <<".pod">>, <<"c.com">>, <<Mapping("m2", "a2"), Mapping("m1", "a3")>>)}

RemoteScalars ==
    {<<NoIP, NoIP, 0>>,
     <<<<10, 0, 0, 53>>, NoIP, 0>>,
     <<<<10, 0, 0, 53>>, <<172, 16, 0, 10>>, 7>>}

RemoteRoutes ==
    {<<<<>>, <<>>>>, <<<<"10.0.0.0/8", "10.1.0.0/16">>, <<"172.17.0.0/16">>>>}

Remotes ==
    {Remote("error", TRUE, ZeroDns, TRUE, <<>>, <<>>)}
    \cup {Remote("ok", TRUE, ZeroDns, TRUE, <<>>, <<>>)}
    \cup {Remote("ok", TRUE, ZeroDns, FALSE, r[1], r[2]) : r \in RemoteRoutes}
    \cup {Remote("ok", FALSE, DnsRecord(sc[1], sc[2], l, sc[3]), TRUE, <<>>, <<>>) :
            sc \in RemoteScalars, l \in RemoteLists}
    \cup {Remote("ok", FALSE, DnsRecord(sc[1], sc[2], l, sc[3]), FALSE, r[1], r[2]) :
            sc \in RemoteScalars, l \in RemoteLists, r \in RemoteRoutes}

\* if kf.DNS.LocalIP == "" { kf.DNS.LocalIP = iputil.IPKey(dns.LocalIP) }
FillIPRemoteWins(local, ip) == IF ip # NoIP THEN IPKey(ip) ELSE local

FillIP(local, ip) == IF local = NoIP THEN IPKey(ip) ELSE local

\* if kf.DNS.LookupTimeout.Duration == 0 { ... = dns.LookupTimeout }
FillTimeout(local, timeout) == IF local = 0 THEN timeout ELSE local

\* append(local, entries...)
AppendAllNew(local, entries) ==
    local \o SelectSeq(entries, LAMBDA e : \A i \in 1..Len(local) : local[i] # e)

AppendAll(local, entries) == local \o entries

\* The body of "if dns := remote.DNS; dns != nil".
MergeDNS(local, dns) ==
    [LocalIP |-> FillIP(local.LocalIP, dns.LocalIP),
     RemoteIP |-> FillIP(local.RemoteIP, dns.RemoteIP),
     ExcludeSuffixes |-> AppendAll(local.ExcludeSuffixes, dns.ExcludeSuffixes),
     IncludeSuffixes |-> AppendAll(local.IncludeSuffixes, dns.IncludeSuffixes),
     Excludes |-> AppendAll(local.Excludes, dns.Excludes),
     Mappings |-> AppendAll(local.Mappings, dns.Mappings),
     LookupTimeout |-> FillTimeout(local.LookupTimeout, dns.LookupTimeout)]

\* The Kubeconfig after AddRemoteKubeConfigExtension(ctx, cfgYaml) for the
\* parsed payload r; a payload that does not parse returns before any write.
AddRemote(k, r) ==
    IF r.parse = "error" THEN k
    ELSE LET dns0 == IF k.DNSNil THEN ZeroDns ELSE k.DNS
             dns1 == IF r.DNSNil THEN dns0 ELSE MergeDNS(dns0, r.DNS)
         IN  [DNSNil |-> FALSE,
              DNS |-> dns1,
              AlsoProxy |-> IF r.RoutingNil THEN k.AlsoProxy
                            ELSE AppendAll(k.AlsoProxy, r.AlsoProxy),
              NeverProxy |-> IF r.RoutingNil THEN k.NeverProxy
                             ELSE AppendAll(k.NeverProxy, r.NeverProxy)]

----------------------------------------------------------------------------
(* State of one invocation.                                                *)

NoErr == Err("", "none")   \* the call that sets this local has not happened

Fresh == [pc |-> "idle", op |-> "none",
          ud |-> "nil", cr |-> "nil", addr |-> "",
          quitDaemons |-> FALSE, cancelled |-> FALSE, elapsed |-> 0,
          running |-> "none", launchErr |-> NoErr, waitErr |-> NoErr,
          udErr |-> NoErr, dialErr |-> NoErr, quitErr |-> NoErr,
          spawns |-> 0, err |-> NoErr]

Init ==
    /\ cli = [p \in Procs |-> Fresh]
    /\ socket \in {"absent", "running"}
    /\ pending = 0
    /\ quitPending = FALSE
    /\ calls = 0
    /\ kin = NoInput
    /\ kout = NoResult
    /\ kf = NoExtension
    /\ remote = NoRemote
    /\ merges = 0
    /\ flags = NoFlags
    /\ cmdName = "connect"
    /\ request = InitRequest
    /\ osEnv = NoEnv
    /\ captures = 0

Set(p, r) == cli' = [cli EXCEPT ![p] = r]

Return(c, e) == [c EXCEPT !.pc = "done", !.err = e]

Callable(p) == cli[p].pc \in {"idle", "done"} /\ calls < MaxCalls

----------------------------------------------------------------------------
(* ensureRootDaemonRunning                                                 *)

\* Entry and the three guards.
EnsureBegin(p) ==
    /\ Callable(p)
    /\ \E ud \in {"nil", "local", "remote"}, cr \in {"nil", "plain", "docker"},
          addr \in {"", "tcp"} :
         LET c == [Fresh EXCEPT !.op = "ensure", !.ud = ud, !.cr = cr, !.addr = addr]
         IN  IF NeverStart(ud, cr, addr)
             THEN Set(p, Return(c, NilErr))
             ELSE Set(p, [c EXCEPT !.pc = "probe"])
    /\ calls' = calls + 1
    /\ UNCHANGED <<socket, pending, quitPending, kin, kout, mergeVars, requestVars, osEnv>>

\* running, err := socket.IsRunning(ctx, socket.RootDaemonPath(ctx))
EnsureProbe(p) ==
    /\ cli[p].pc = "probe"
    /\ \E r \in IsRunning(socket) :
         LET c == [cli[p] EXCEPT !.running = IF r[2] # NilErr THEN "error"
                                             ELSE IF r[1] THEN "running" ELSE "absent"]
         IN  IF ProbeReturns(r[1], r[2])
             THEN Set(p, Return(c, r[2]))
             ELSE Set(p, [c EXCEPT !.pc = "launch"])
    /\ UNCHANGED <<socket, pending, quitPending, calls, kin, kout, mergeVars, requestVars, osEnv>>

\* err = launchDaemon(ctx, cr)
EnsureLaunch(p) ==
    /\ cli[p].pc = "launch"
    /\ \E o \in LaunchOutcomes :
         LET e == IF o = "nil" THEN NilErr ELSE Err("", o)
             c == [cli[p] EXCEPT !.launchErr = e,
                                 !.spawns = IF o = "logfile" THEN @ ELSE @ + 1]
         IN  /\ IF LaunchResult(e) # NilErr
                THEN Set(p, Return(c, LaunchResult(e)))
                ELSE Set(p, [c EXCEPT !.pc = "waitrunning", !.elapsed = 0])
             /\ pending' = IF o = "nil" THEN pending + 1 ELSE pending
    /\ UNCHANGED <<socket, quitPending, calls, kin, kout, mergeVars, requestVars, osEnv>>

\* err = socket.WaitUntilRunning(ctx, "daemon", path, 10*time.Second)
EnsureWait(p) ==
    /\ cli[p].pc = "waitrunning"
    /\ LET w == WaitUntilRunning(cli[p].cancelled, socket, cli[p].elapsed, ReadyTimeout)
       IN  IF w = "pending"
           THEN Set(p, [cli[p] EXCEPT !.elapsed = @ + 1])
           ELSE LET e == IF w = "nil" THEN NilErr ELSE Err("", w)
                IN  Set(p, Return([cli[p] EXCEPT !.waitErr = e], WaitResult(e)))
    /\ UNCHANGED <<socket, pending, quitPending, calls, kin, kout, mergeVars, requestVars, osEnv>>

----------------------------------------------------------------------------
(* Disconnect                                                              *)

DisconnectBegin(p) ==
    /\ Callable(p)
    /\ \E q \in BOOLEAN :
         Set(p, [Fresh EXCEPT !.op = "disconnect", !.quitDaemons = q, !.pc = "userdaemon"])
    /\ calls' = calls + 1
    /\ UNCHANGED <<socket, pending, quitPending, kin, kout, mergeVars, requestVars, osEnv>>

\* err := UserDaemonDisconnect(ctx, quitDaemons) and the two tests on err.
\* A user daemon that is asked to quit may tell the root daemon to quit.
DisconnectUser(p) ==
    /\ cli[p].pc = "userdaemon"
    /\ \E o \in UserDaemonDisconnect :
         LET e == IF o = "nil" THEN NilErr ELSE Err("", o)
             c == [cli[p] EXCEPT !.udErr = e]
         IN  /\ IF UserStepResult(e) # NilErr
                THEN Set(p, Return(c, UserStepResult(e)))
                ELSE IF c.quitDaemons
                     THEN Set(p, [c EXCEPT !.pc = "waitvanish", !.elapsed = 0])
                     ELSE Set(p, Return(c, NilErr))
             /\ \/ quitPending' = quitPending
                \/ /\ o = "nil" /\ cli[p].quitDaemons /\ socket = "running"
                   /\ quitPending' = TRUE
    /\ UNCHANGED <<socket, pending, calls, kin, kout, mergeVars, requestVars, osEnv>>

\* err = socket.WaitUntilVanishes("root daemon", path, 5*time.Second)
DisconnectWait(p) ==
    /\ cli[p].pc = "waitvanish"
    /\ LET w == WaitUntilVanishes(socket, cli[p].elapsed, VanishTimeout)
       IN  IF w = "pending"
           THEN Set(p, [cli[p] EXCEPT !.elapsed = @ + 1])
           ELSE LET e == IF w = "nil" THEN NilErr ELSE Err("", w)
                    c == [cli[p] EXCEPT !.waitErr = e]
                IN  IF Fallback(e)
                    THEN Set(p, [c EXCEPT !.pc = "dial"])
                    ELSE Set(p, Return(c, e))
    /\ UNCHANGED <<socket, pending, quitPending, calls, kin, kout, mergeVars, requestVars, osEnv>>

\* conn, err = socket.Dial(ctx, path)
DisconnectDial(p) ==
    /\ cli[p].pc = "dial"
    /\ \E o \in Dial(socket) :
         LET e == IF o = "nil" THEN NilErr ELSE Err("", o)
             c == [cli[p] EXCEPT !.dialErr = e]
         IN  IF e = NilErr
             THEN Set(p, [c EXCEPT !.pc = "quit"])
             ELSE Set(p, Return(c, e))
    /\ UNCHANGED <<socket, pending, quitPending, calls, kin, kout, mergeVars, requestVars, osEnv>>

\* _, err = rpc.NewDaemonClient(conn).Quit(ctx, &empty.Empty{})
DisconnectQuit(p) ==
    /\ cli[p].pc = "quit"
    /\ \E o \in {"nil", "rpc"} :
         LET e == IF o = "nil" THEN NilErr ELSE Err("", o)
             c == [cli[p] EXCEPT !.quitErr = e]
         IN  /\ Set(p, Return(c, QuitResult(e)))
             /\ quitPending' = IF o = "nil" /\ socket = "running" THEN TRUE ELSE quitPending
    /\ UNCHANGED <<socket, pending, calls, kin, kout, mergeVars, requestVars, osEnv>>

----------------------------------------------------------------------------
(* Environment                                                             *)

\* The invocation's context is cancelled (interactive interrupt).
Cancel(p) ==
    /\ cli[p].pc \notin {"idle", "done"}
    /\ ~cli[p].cancelled
    /\ Set(p, [cli[p] EXCEPT !.cancelled = TRUE])
    /\ UNCHANGED <<socket, pending, quitPending, calls, kin, kout, mergeVars, requestVars, osEnv>>

\* A spawned daemon binds the socket, or exits because the socket is bound
\* already or because it failed to start.
DaemonStarts ==
    /\ pending > 0
    /\ pending' = pending - 1
    /\ \/ socket' = socket
       \/ socket = "absent" /\ socket' = "running"
    /\ UNCHANGED <<cli, quitPending, calls, kin, kout, mergeVars, requestVars, osEnv>>

\* The root daemon that was told to quit removes its socket.
DaemonQuits ==
    /\ quitPending
    /\ socket' = "absent"
    /\ quitPending' = FALSE
    /\ UNCHANGED <<cli, pending, calls, kin, kout, mergeVars, requestVars, osEnv>>

Next ==
    \/ \E p \in Procs : EnsureBegin(p)
    \/ \E p \in Procs : EnsureProbe(p)
    \/ \E p \in Procs : EnsureLaunch(p)
    \/ \E p \in Procs : EnsureWait(p)
    \/ \E p \in Procs : DisconnectBegin(p)
    \/ \E p \in Procs : DisconnectUser(p)
    \/ \E p \in Procs : DisconnectWait(p)
    \/ \E p \in Procs : DisconnectDial(p)
    \/ \E p \in Procs : DisconnectQuit(p)
    \/ \E p \in Procs : Cancel(p)
    \/ DaemonStarts
    \/ DaemonQuits

Spec == Init /\ [][Next]_vars

----------------------------------------------------------------------------
(* Properties of ensureRootDaemonRunning                                   *)

Ensuring(p) == cli[p].op = "ensure"

Disconnecting(p) == cli[p].op = "disconnect"

Finished(p) == cli[p].pc = "done"

TimeoutErr == Err("", "timeout")

\* C1: whenever the socket probe of a call of ensureRootDaemonRunning reports
\* running, the call returns success and has attempted no spawn, in the first
\* call and in every repeated one.
C1_RunningIsNoOp ==
    \A p \in Procs :
        (Ensuring(p) /\ cli[p].running = "running")
            => (Finished(p) /\ cli[p].spawns = 0 /\ cli[p].err = NilErr)

\* A repeated call has probed a running daemon and returned.
C1_Witness ==
    \E p \in Procs :
        /\ Ensuring(p) /\ Finished(p) /\ cli[p].running = "running"
        /\ calls >= 2

\* C2: when the probe found the socket absent, the spawn succeeded and the
\* readiness wait ran into its 10 second bound, the call returns the error
\* "daemon service did not start" wrapping the timeout, after exactly one
\* spawn attempt.
C2_TimeoutAfterOneSpawn ==
    \A p \in Procs :
        (Ensuring(p) /\ cli[p].launchErr = NilErr /\ cli[p].waitErr = TimeoutErr)
            => /\ Finished(p)
               /\ cli[p].running = "absent"
               /\ cli[p].err = Err("daemon service did not start", "timeout")
               /\ cli[p].spawns = 1

\* A call has timed out waiting for the daemon it spawned.
C2_Witness ==
    \E p \in Procs :
        /\ Ensuring(p) /\ Finished(p)
        /\ cli[p].launchErr = NilErr /\ cli[p].waitErr = TimeoutErr
        /\ cli[p].elapsed = ReadyTimeout

\* C3: if the user daemon client is remote, or the request asks for docker,
\* or a user daemon address is configured, the call returns success without
\* probing the socket and without spawning; so a spawn happens only when all
\* three guards let it.
C3_GuardsPreventLaunch ==
    \A p \in Procs :
        (Ensuring(p) /\ (cli[p].ud = "remote" \/ cli[p].cr = "docker" \/ cli[p].addr # ""))
            => /\ Finished(p)
               /\ cli[p].err = NilErr
               /\ cli[p].spawns = 0
               /\ cli[p].running = "none"

\* Docker mode alone has stopped a call while the socket is absent.
C3_Witness ==
    \E p \in Procs :
        /\ Ensuring(p) /\ Finished(p)
        /\ cli[p].cr = "docker" /\ cli[p].ud # "remote" /\ cli[p].addr = ""
        /\ socket = "absent"

\* C4 as claimed: of two invocations racing in ensureRootDaemonRunning, at
\* most one spawns a daemon process.
C4_AtMostOneSpawner ==
    ~ \E p, q \in Procs :
        /\ p # q
        /\ Ensuring(p) /\ Ensuring(q)
        /\ cli[p].pc = "waitrunning" /\ cli[q].pc = "waitrunning"
        /\ cli[p].spawns = 1 /\ cli[q].spawns = 1
        /\ pending >= 2

\* C4 as amended: an invocation whose probe reports running never spawns, no
\* invocation spawns more than once in a call, and an invocation whose
\* readiness wait sees the socket running returns success, whoever bound it.
C4_LoserProceeds ==
    \A p \in Procs :
        Ensuring(p)
            => /\ cli[p].spawns <= 1
               /\ (cli[p].running = "running" => cli[p].spawns = 0)
               /\ (cli[p].waitErr = NilErr => (Finished(p) /\ cli[p].err = NilErr))

\* Both invocations spawned, and both returned success from the wait.
C4_Witness ==
    \E p, q \in Procs :
        /\ p # q
        /\ Ensuring(p) /\ Ensuring(q) /\ Finished(p) /\ Finished(q)
        /\ cli[p].spawns = 1 /\ cli[q].spawns = 1
        /\ cli[p].waitErr = NilErr /\ cli[q].waitErr = NilErr
        /\ cli[p].err = NilErr /\ cli[q].err = NilErr

----------------------------------------------------------------------------
(* Properties of Disconnect                                                *)

UserStepPassed(p) == cli[p].udErr.cause \in {"nil", ErrNoUserDaemon}

Failed(e) == e \notin {NoErr, NilErr}

\* C5: with full teardown, a failed dial of the root daemon or a failed Quit
\* RPC does not make a Disconnect fail whose user daemon step passed.
C5_FallbackFailureNotFatal ==
    \A p \in Procs :
        (/\ Disconnecting(p) /\ Finished(p) /\ cli[p].quitDaemons
         /\ UserStepPassed(p)
         /\ (Failed(cli[p].dialErr) \/ Failed(cli[p].quitErr)))
            => cli[p].err = NilErr

\* C6: the root daemon socket is waited on or dialed only after the user
\* daemon step returned success or ErrNoUserDaemon; ErrNoUserDaemon is not
\* reported as an error; any other user daemon error ends Disconnect with an
\* error before the root daemon is touched.
C6_UserDaemonFirst ==
    \A p \in Procs :
        Disconnecting(p)
            => /\ (\/ cli[p].pc \in {"waitvanish", "dial", "quit"}
                   \/ cli[p].waitErr # NoErr
                   \/ cli[p].dialErr # NoErr
                   \/ cli[p].quitErr # NoErr) => UserStepPassed(p)
               /\ cli[p].udErr.cause = "rpc"
                    => /\ Finished(p)
                       /\ cli[p].err = Err("error when quitting connector", "rpc")
                       /\ cli[p].waitErr = NoErr
                       /\ cli[p].dialErr = NoErr
                       /\ cli[p].quitErr = NoErr
               /\ cli[p].udErr.cause = ErrNoUserDaemon
                    => /\ cli[p].err.wrap # "error when quitting connector"
                       /\ ~cli[p].quitDaemons => (Finished(p) /\ cli[p].err = NilErr)
                       /\ cli[p].quitDaemons => (~Finished(p) \/ cli[p].waitErr # NoErr)

\* A full teardown went on to the root daemon after ErrNoUserDaemon.
C6_Witness ==
    \E p \in Procs :
        /\ Disconnecting(p) /\ Finished(p) /\ cli[p].quitDaemons
        /\ cli[p].udErr.cause = ErrNoUserDaemon
        /\ cli[p].waitErr # NoErr

\* C7: the root daemon is dialed, and sent Quit, only when full teardown is
\* requested and the wait for the socket to vanish timed out; when the socket
\* vanished within the wait, or without full teardown, there is no dial and
\* no Quit.
C7_FallbackOnlyAfterTimeout ==
    \A p \in Procs :
        Disconnecting(p)
            => /\ (\/ cli[p].pc \in {"dial", "quit"}
                   \/ cli[p].dialErr # NoErr
                   \/ cli[p].quitErr # NoErr)
                    => (cli[p].quitDaemons /\ cli[p].waitErr = TimeoutErr)
               /\ (cli[p].waitErr = NilErr \/ ~cli[p].quitDaemons)
                    => /\ cli[p].pc \notin {"dial", "quit"}
                       /\ cli[p].dialErr = NoErr
                       /\ cli[p].quitErr = NoErr

\* The Quit RPC has been sent after the wait timed out.
C7_Witness ==
    \E p \in Procs :
        /\ Disconnecting(p) /\ Finished(p) /\ cli[p].quitDaemons
        /\ cli[p].waitErr = TimeoutErr
        /\ cli[p].elapsed = VanishTimeout
        /\ cli[p].quitErr = Err("", "rpc")

\* C8 as claimed: a Disconnect with full teardown that returns success has
\* observed the socket to have vanished.
C8_SuccessMeansVanished ==
    \A p \in Procs :
        (Disconnecting(p) /\ Finished(p) /\ cli[p].quitDaemons /\ cli[p].err = NilErr)
            => cli[p].waitErr = NilErr

\* C8 as amended: a Disconnect with full teardown that returns success has
\* either observed the socket to have vanished within the wait, or has timed
\* out waiting and then dialed the root daemon and had its Quit acknowledged.
C8_SuccessMeansVanishedOrQuit ==
    \A p \in Procs :
        (Disconnecting(p) /\ Finished(p) /\ cli[p].quitDaemons /\ cli[p].err = NilErr)
            => \/ cli[p].waitErr = NilErr
               \/ /\ cli[p].waitErr = TimeoutErr
                  /\ cli[p].dialErr = NilErr
                  /\ cli[p].quitErr = NilErr

\* A full teardown succeeded on the acknowledged Quit while the socket is
\* still there.
C8_Witness ==
    \E p \in Procs :
        /\ Disconnecting(p) /\ Finished(p) /\ cli[p].quitDaemons
        /\ cli[p].err = NilErr
        /\ cli[p].quitErr = NilErr
        /\ socket = "running"

\* C9: once the context of an invocation is cancelled, a wait of that
\* invocation (for the socket to appear or to vanish) polls no further.
C9_WaitsAbortOnCancel ==
    [][\A p \in Procs :
          (cli[p].cancelled /\ cli[p].pc \in {"waitrunning", "waitvanish"})
              => cli'[p].elapsed = cli[p].elapsed]_vars

----------------------------------------------------------------------------
(* Kubeconfig resolution: the two entry points                             *)

InitK ==
    /\ cli = [p \in Procs |-> Fresh]
    /\ socket = "absent"
    /\ pending = 0
    /\ quitPending = FALSE
    /\ calls = 0
    /\ kin \in KubeInputs
    /\ kout = NoResult
    /\ kf = NoExtension
    /\ remote = NoRemote
    /\ merges = 0
    /\ flags = NoFlags
    /\ cmdName = "connect"
    /\ request = InitRequest
    /\ osEnv = DaemonEnv
    /\ captures = 0

\* NewKubeconfig(c, flagMap, managerNamespaceOverride)
NewKubeconfig ==
    /\ kout.fn = "none"
    /\ kout' = [ResolveWithFlags(kin) EXCEPT !.fn = "NewKubeconfig"]
    /\ UNCHANGED <<kin, daemonVars, mergeVars, requestVars, osEnv>>

\* DaemonKubeconfig(c, cr)
DaemonKubeconfig ==
    /\ kout.fn = "none"
    /\ kout' = [(IF kin.IsPodDaemon THEN NewInClusterConfig(kin)
                 ELSE ResolveWithFlags(kin)) EXCEPT !.fn = "DaemonKubeconfig"]
    /\ IF kin.IsPodDaemon THEN osEnv' = osEnv
       ELSE osEnv' \in ReplayEnvironment(kin.Environment, osEnv)
    /\ UNCHANGED <<kin, daemonVars, mergeVars, requestVars>>

\* CurrentContext(flagMap)
GetCurrentContext ==
    /\ kout.fn = "none"
    /\ kout' = [CurrentContext(kin) EXCEPT !.fn = "CurrentContext"]
    /\ UNCHANGED <<kin, daemonVars, mergeVars, requestVars, osEnv>>

NextK == NewKubeconfig \/ DaemonKubeconfig \/ GetCurrentContext

SpecK == InitK /\ [][NextK]_vars

----------------------------------------------------------------------------
(* Properties of the kubeconfig resolution                                 *)

RECURSIVE FirstNonEmpty(_)
FirstNonEmpty(seq) ==
    IF seq = <<>> THEN ""
    ELSE IF Head(seq) # "" THEN Head(seq)
    ELSE FirstNonEmpty(Tail(seq))

\* The kubeconfig was resolved from the file (not in-cluster), successfully.
ResolvedFromFile ==
    /\ kout.fn \in {"NewKubeconfig", "DaemonKubeconfig"}
    /\ kout.err = "nil"
    /\ ~(kout.fn = "DaemonKubeconfig" /\ kin.IsPodDaemon)

\* C10: the manager namespace of a resolved kubeconfig is the first non-empty
\* of the explicit override, the environment variable, the namespace of the
\* cluster's extension and the global default, in this order.
C10_ManagerNamespacePrecedence ==
    ResolvedFromFile
        => kout.managerNs =
             FirstNonEmpty(<<kin.override, kin.env,
                             ExtensionNamespace(kin.config.Clusters[kout.cluster]),
                             kin.default>>)

\* The context that the flags and the kubeconfig select.
ResolvedContextName ==
    IF kin.flagContext = "" THEN kin.config.CurrentContext ELSE kin.flagContext

\* The kubeconfig has no context, or not the selected one, or not the cluster
\* that the selected context names.
ContextOrClusterMissing ==
    \/ DOMAIN kin.config.Contexts = {}
    \/ ResolvedContextName \notin DOMAIN kin.config.Contexts
    \/ kin.config.Contexts[ResolvedContextName] \notin DOMAIN kin.config.Clusters

\* C13: when the kubeconfig loads but has no context, or lacks the selected
\* context or that context's cluster, CurrentContext and NewKubeconfig fail
\* with an error of category Config; neither returns success.
C13_MissingContextIsConfigError ==
    (/\ kout.fn \in {"CurrentContext", "NewKubeconfig"}
     /\ kin.loadErr = "nil"
     /\ ContextOrClusterMissing)
        => (kout.err # "nil" /\ kout.cat = "Config")

----------------------------------------------------------------------------
(* Remote extension merge: the calls                                       *)

InitM ==
    /\ cli = [p \in Procs |-> Fresh]
    /\ socket = "absent"
    /\ pending = 0
    /\ quitPending = FALSE
    /\ calls = 0
    /\ kin = NoInput
    /\ kout = NoResult
    /\ kf \in LocalExtensions
    /\ remote = NoRemote
    /\ merges = 0
    /\ flags = NoFlags
    /\ cmdName = "connect"
    /\ request = InitRequest
    /\ osEnv = NoEnv
    /\ captures = 0

\* kf.AddRemoteKubeConfigExtension(ctx, cfgYaml)
AddRemoteKubeConfigExtension ==
    /\ merges < MaxMerges
    /\ \E r \in Remotes :
         /\ kf' = AddRemote(kf, r)
         /\ remote' = r
    /\ merges' = merges + 1
    /\ UNCHANGED <<daemonVars, kubeVars, requestVars, osEnv>>

NextM == AddRemoteKubeConfigExtension

SpecM == InitM /\ [][NextM]_vars

----------------------------------------------------------------------------
(* Properties of the remote extension merge                                *)

\* The DNS settings of a Kubeconfig, those of &DnsConfig{} for a nil pointer.
DnsOf(k) == IF k.DNSNil THEN ZeroDns ELSE k.DNS

\* What a payload offers for the DNS settings and the routes: nothing when
\* the section is missing.
RemoteDns(r) == IF r.DNSNil THEN ZeroDns ELSE r.DNS

RemoteAlsoProxy(r) == IF r.RoutingNil THEN <<>> ELSE r.AlsoProxy

RemoteNeverProxy(r) == IF r.RoutingNil THEN <<>> ELSE r.NeverProxy

Scalars(d) == <<d.LocalIP, d.RemoteIP, d.LookupTimeout>>

\* The step is a call of AddRemoteKubeConfigExtension.
Merged == merges' = merges + 1

\* C11: in every merge, each of LocalIP, RemoteIP and LookupTimeout keeps a
\* non-empty local value and takes the remote value when the local one is
\* empty; a merge of the payload that was merged just before changes none of
\* the three; a payload that does not parse changes nothing.
C11_ScalarsFillOnly ==
    [][Merged =>
         LET old == DnsOf(kf)
             new == DnsOf(kf')
             rem == RemoteDns(remote')
         IN  IF remote'.parse = "error" THEN kf' = kf
             ELSE /\ new.LocalIP = (IF old.LocalIP # NoIP THEN old.LocalIP ELSE rem.LocalIP)
                  /\ new.RemoteIP = (IF old.RemoteIP # NoIP THEN old.RemoteIP ELSE rem.RemoteIP)
                  /\ new.LookupTimeout =
                       (IF old.LookupTimeout # 0 THEN old.LookupTimeout ELSE rem.LookupTimeout)
                  /\ (remote' = remote) => (Scalars(new) = Scalars(old))]_vars

\* After two merges the local RemoteIP and LookupTimeout have survived a
\* payload that sets both, and the empty LocalIP has taken the remote one.
C11_Witness ==
    /\ merges >= 2
    /\ remote.parse = "ok" /\ ~remote.DNSNil
    /\ Scalars(remote.DNS) = <<<<10, 0, 0, 53>>, <<172, 16, 0, 10>>, 7>>
    /\ Scalars(kf.DNS) = <<<<10, 0, 0, 53>>, <<10, 96, 0, 10>>, 7>>

\* C12: in every merge, each list of the extension becomes its previous
\* contents followed by the remote entries, in their order and with their
\* duplicates; a missing section or a payload that does not parse leaves the
\* lists as they are.
C12_ListsAppendOnly ==
    [][Merged =>
         LET old == DnsOf(kf)
             new == DnsOf(kf')
             rem == RemoteDns(remote')
         IN  IF remote'.parse = "error" THEN kf' = kf
             ELSE /\ new.ExcludeSuffixes = old.ExcludeSuffixes \o rem.ExcludeSuffixes
                  /\ new.IncludeSuffixes = old.IncludeSuffixes \o rem.IncludeSuffixes
                  /\ new.Excludes = old.Excludes \o rem.Excludes
                  /\ new.Mappings = old.Mappings \o rem.Mappings
                  /\ kf'.AlsoProxy = kf.AlsoProxy \o RemoteAlsoProxy(remote')
                  /\ kf'.NeverProxy = kf.NeverProxy \o RemoteNeverProxy(remote')]_vars

\* After two merges a list holds a local entry first and the same entry again
\* from the remote payload.
C12_Witness ==
    /\ merges >= 2
    /\ remote.parse = "ok"
    /\ Len(kf.DNS.Excludes) >= 3
    /\ kf.DNS.Excludes[1] = "a.com"
    /\ \E i \in 2..Len(kf.DNS.Excludes) : kf.DNS.Excludes[i] = "a.com"
    /\ Len(kf.AlsoProxy) > Cardinality({kf.AlsoProxy[i] : i \in 1..Len(kf.AlsoProxy)})

----------------------------------------------------------------------------
(* Connection request: the calls                                           *)

InitR ==
    /\ cli = [p \in Procs |-> Fresh]
    /\ socket = "absent"
    /\ pending = 0
    /\ quitPending = FALSE
    /\ calls = 0
    /\ kin = NoInput
    /\ kout = NoResult
    /\ kf = NoExtension
    /\ remote = NoRemote
    /\ merges = 0
    /\ flags \in {fl \in [FlagNames -> UNION {{Flag(e, FALSE, v) : e \in BOOLEAN, v \in FlagDefaults[f]} : f \in FlagNames}] :
                    \A f \in FlagNames : /\ fl[f].Value \in FlagDefaults[f]
                                         /\ (f # "context" => fl[f].Exists)}
    /\ cmdName \in {"connect", "list"}
    /\ request = InitRequest
    /\ osEnv \in [EnvNames -> UNION {EnvValues[k] : k \in EnvNames}]
    /\ \A k \in EnvNames : osEnv[k] \in EnvValues[k]
    /\ captures = 0

\* The command line is parsed, before the command runs: pflag sets the value
\* and marks the flag changed.
ParseFlag ==
    /\ captures = 0
    /\ \E f \in FlagNames, v \in UNION {FlagArguments[g] : g \in FlagNames} :
         /\ v \in FlagArguments[f]
         /\ flags[f].Exists
         /\ flags' = [flags EXCEPT ![f] = Flag(TRUE, TRUE, v)]
    /\ UNCHANGED <<cmdName, request, captures, osEnv, daemonVars, kubeVars, mergeVars>>

\* os.Setenv and os.Unsetenv
SetEnv ==
    /\ \E k \in EnvNames, l \in UNION {EnvValues[j] : j \in EnvNames} :
         /\ l \in EnvValues[k]
         /\ osEnv' = [osEnv EXCEPT ![k] = l]
    /\ UNCHANGED <<requestVars, daemonVars, kubeVars, mergeVars>>

\* A command calls InitRequest(cmd) for a request of its own.
NewRequest ==
    /\ request.op # "InitRequest"
    /\ request' = InitRequest
    /\ UNCHANGED <<flags, cmdName, captures, osEnv, daemonVars, kubeVars, mergeVars>>

\* cr.CommitFlags(cmd), on a request that InitRequest made
CommitFlags ==
    /\ captures < MaxCaptures
    /\ ~request.Implicit
    /\ request' = CommitFlagsResult(request, flags, osEnv)
    /\ captures' = captures + 1
    /\ UNCHANGED <<flags, cmdName, osEnv, daemonVars, kubeVars, mergeVars>>

\* WithDefaultRequest(ctx, cmd)
WithDefaultRequest ==
    /\ captures < MaxCaptures
    /\ request' = WithDefaultRequestResult(cmdName, flags, osEnv)
    /\ captures' = captures + 1
    /\ UNCHANGED <<flags, cmdName, osEnv, daemonVars, kubeVars, mergeVars>>

NextR == ParseFlag \/ SetEnv \/ NewRequest \/ CommitFlags \/ WithDefaultRequest

SpecR == InitR /\ [][NextR]_vars

----------------------------------------------------------------------------
(* Properties of the connection request                                    *)

\* C14: every key of the request's KubeFlags is a flag that the command line
\* changed; a flag left at its default, empty or not, is never entered.
C14_KubeFlagsOnlyChanged ==
    \A k \in DOMAIN request.KubeFlags :
        /\ k \in FlagNames
        /\ flags[k].Exists
        /\ flags[k].Changed

\* After a second call the map holds the changed namespace flag and leaves
\* out --request-timeout and --context, both at a non-empty default.
C14_Witness ==
    /\ captures >= 2
    /\ request.op \in {"CommitFlags", "WithDefaultRequest"}
    /\ "namespace" \in DOMAIN request.KubeFlags
    /\ ~flags["request-timeout"].Changed
    /\ flags["request-timeout"].Value.String = "0"
    /\ flags["context"].Exists /\ ~flags["context"].Changed
    /\ flags["context"].Value.String = "minikube"
    /\ DOMAIN request.KubeFlags = {"namespace"}

\* The step is a call that captured the environment.
Captured ==
    /\ captures' = captures + 1
    /\ \/ request'.op = "CommitFlags"
       \/ request'.op = "WithDefaultRequest" /\ request'.err = "nil"

\* C15: a call that captures the environment leaves, for each of KUBECONFIG
\* and GOOGLE_APPLICATION_CREDENTIALS, the variable mapped to its value and no
\* dash key when the variable is set, and the dash key mapped to "" and no
\* plain key when it is unset, whatever an earlier capture had left.
C15_EnvironmentCapture ==
    [][Captured =>
         \A k \in EnvNames :
             IF osEnv[k].ok
             THEN /\ k \in DOMAIN request'.Environment
                  /\ request'.Environment[k] = osEnv[k].v
                  /\ UnsetKey(k) \notin DOMAIN request'.Environment
             ELSE /\ UnsetKey(k) \in DOMAIN request'.Environment
                  /\ request'.Environment[UnsetKey(k)] = ""
                  /\ k \notin DOMAIN request'.Environment]_vars

\* A repeated CommitFlags has captured KUBECONFIG unset and the credentials
\* set.
C15_Witness ==
    /\ captures >= 2
    /\ request.op = "CommitFlags"
    /\ ~osEnv["KUBECONFIG"].ok
    /\ osEnv["GOOGLE_APPLICATION_CREDENTIALS"].ok
    /\ DOMAIN request.Environment = {"-KUBECONFIG", "GOOGLE_APPLICATION_CREDENTIALS"}
    /\ request.Environment["-KUBECONFIG"] = ""
    /\ request.Environment["GOOGLE_APPLICATION_CREDENTIALS"] = "/gac.json"

====
